---- MODULE Spec2Model ----
(***************************************************************************)
(* Model of src/simulations/simulator.py: the Simulator that runs          *)
(* num_runs trials (run_one), concatenates the per-trial tables, computes  *)
(* the relative error, aggregates per num_sets and writes the two sinks.   *)
(*                                                                         *)
(* Every variable is a function over Sims, the Simulator instances.  Only  *)
(* the instances of Active take steps: one instance with arbitrary         *)
(* collaborators under Spec, two instances with identical seeds and        *)
(* deterministic collaborators under SpecDet.                              *)
(*                                                                         *)
(* Floating point values are <<kind, n, d>>: <<"fin", n, d>> is the        *)
(* rational n/d in lowest terms (d > 0), <<"inf", s, 1>> is s * infinity   *)
(* and <<"nan", 0, 1>> is not-a-number.  A standard deviation is kept as   *)
(* its square (the sample variance), which is NaN, zero or positive        *)
(* exactly when the standard deviation is.                                 *)
(***************************************************************************)
EXTENDS Integers, Sequences, FiniteSets, TLC

\* Identifiers are 1..MaxId.
MaxId == 2
\* A generator yields at most MaxSets sets per trial.
MaxSets == 2
\* num_runs is drawn from 0..MaxRuns.
MaxRuns == 2
\* An arbitrary estimator returns a value of 0..MaxEst.
MaxEst == 1
\* randint draws from 0..SeedRange-1; the source's range is 2**32-1 values.
SeedRange == 5

Sims == {1, 2}
Ids == 1..MaxId

RUN_INDEX == "run_index"
ESTIMATED_CARDINALITY == "estimated_cardinality"
TRUE_CARDINALITY == "true_cardinality"
RELATIVE_ERROR == "relative_error"
NUM_SETS == "num_sets"

VARIABLES
  deterministic,        \* TRUE: collaborators are functions of their inputs
  num_runs,             \* self.num_runs
  noiser,               \* self.estimator_config.noiser is truthy
  file_handle_raw,      \* self.file_handle_raw is not None
  file_handle_agg,      \* self.file_handle_agg is not None
  sketch_random_state,  \* self.sketch_random_state: [key, pos]
  set_random_state,     \* self.set_random_state: [key, pos]
  pc,                   \* position of the call of run_all_and_aggregate
  t,                    \* loop variable of run_all_and_aggregate
  dfs,                  \* list of per-trial tables
  df,                   \* the raw table
  df_agg,               \* the aggregated table
  sketch_random_seed,   \* run_one: the seed of the trial
  sketches,             \* run_one: list of sketches
  actual_ids,           \* run_one: list of the sets yielded
  noised,               \* run_one: the list the comprehension is building
  true_union,           \* run_one: running union
  metrics,              \* run_one: list of row tuples
  est_args,             \* history: argument of each estimator call of the trial
  started,              \* history: number of run_one calls
  yielded,              \* history: number of sets yielded by each finished trial
  writes,               \* history: the sink writes attempted, <<sink, ok>>
  err,                  \* the exception the call ended with, or NoError
  result                \* the value returned, or NoResult

vars == <<deterministic, num_runs, noiser, file_handle_raw, file_handle_agg,
          sketch_random_state, set_random_state, pc, t, dfs, df, df_agg,
          sketch_random_seed, sketches, actual_ids, noised, true_union,
          metrics, est_args, started, yielded, writes, err, result>>

config == <<deterministic, num_runs, noiser, file_handle_raw, file_handle_agg>>
locals == <<sketch_random_seed, sketches, actual_ids, noised, true_union,
            metrics, est_args>>

NoError == <<"none", 0>>
NoResult == <<>>

Active == IF deterministic THEN Sims ELSE {1}

----------------------------------------------------------------------------
\* Floating point arithmetic.

RECURSIVE GCD(_, _)
GCD(a, b) == IF b = 0 THEN a ELSE GCD(b, a % b)

Abs(n) == IF n < 0 THEN -n ELSE n
Sign(n) == IF n < 0 THEN -1 ELSE IF n = 0 THEN 0 ELSE 1

NaN == <<"nan", 0, 1>>
Inf(s) == <<"inf", s, 1>>
Fin(n, d) ==
  LET g == GCD(Abs(n), Abs(d))
  IN  <<"fin", Sign(d) * (n \div g), Abs(d) \div g>>
FromInt(i) == <<"fin", i, 1>>

IsNaN(x) == x[1] = "nan"
IsInf(x) == x[1] = "inf"
IsFin(x) == x[1] = "fin"

\* n / d for integers n, d as numpy divides: no exception when d = 0.
TrueDiv(n, d) ==
  IF d = 0
    THEN IF n = 0 THEN NaN ELSE Inf(Sign(n))
    ELSE Fin(n, d)

FAdd(x, y) ==
  CASE IsNaN(x) \/ IsNaN(y) -> NaN
    [] IsInf(x) /\ IsInf(y) -> IF x[2] = y[2] THEN x ELSE NaN
    [] IsInf(x) -> x
    [] IsInf(y) -> y
    [] OTHER -> Fin(x[2] * y[3] + y[2] * x[3], x[3] * y[3])

FNeg(x) == IF IsNaN(x) THEN NaN ELSE <<x[1], -x[2], x[3]>>
FSub(x, y) == FAdd(x, FNeg(y))

FMul(x, y) ==
  CASE IsNaN(x) \/ IsNaN(y) -> NaN
    [] IsInf(x) \/ IsInf(y) ->
         IF x[2] = 0 \/ y[2] = 0 THEN NaN ELSE Inf(Sign(x[2]) * Sign(y[2]))
    [] OTHER -> Fin(x[2] * y[2], x[3] * y[3])

\* x / c for a count c.
FDivCount(x, c) ==
  CASE c = 0 -> NaN
    [] IsNaN(x) -> NaN
    [] IsInf(x) -> x
    [] OTHER -> Fin(x[2], x[3] * c)

RECURSIVE FSum(_)
FSum(s) == IF s = <<>> THEN FromInt(0) ELSE FAdd(Head(s), FSum(Tail(s)))

----------------------------------------------------------------------------
\* pandas: columns, concatenation, groupby(...).agg(['mean', 'std']).

Column(table, c) == [i \in 1..Len(table) |-> table[i][c]]
IntColumn(table, c) == [i \in 1..Len(table) |-> FromInt(table[i][c])]

NotNaN(x) == ~IsNaN(x)

\* A mean that counts a missing value as zero.
MeanNaNAsZero(values) ==
  LET v == [i \in 1..Len(values) |->
              IF IsNaN(values[i]) THEN FromInt(0) ELSE values[i]]
  IN  FDivCount(FSum(v), Len(v))

\* GroupBy mean: missing values (NaN) are skipped.
mean(values) ==
  LET v == SelectSeq(values, NotNaN)
  IN  FDivCount(FSum(v), Len(v))

\* GroupBy std, ddof = 1, kept as its square: missing values are skipped.
std(values) ==
  LET v == SelectSeq(values, NotNaN)
      m == FDivCount(FSum(v), Len(v))
      sq == [i \in 1..Len(v) |-> FMul(FSub(v[i], m), FSub(v[i], m))]
  IN  IF Len(v) < 2 THEN NaN ELSE FDivCount(FSum(sq), Len(v) - 1)

Stats(values) == [mean |-> mean(values), std |-> std(values)]

\* A concatenation that keeps the last table only.
PdConcatLastOnly(tables) ==
  IF tables = <<>> THEN <<>> ELSE tables[Len(tables)]

\* A concatenation that puts the later tables first.
RECURSIVE PdConcatReversed(_)
PdConcatReversed(tables) ==
  IF tables = <<>> THEN <<>> ELSE PdConcatReversed(Tail(tables)) \o Head(tables)

RECURSIVE pd_concat(_)
pd_concat(tables) ==
  IF tables = <<>> THEN <<>> ELSE Head(tables) \o pd_concat(Tail(tables))

\* DataFrame(metrics, columns=[...]) followed by df[RUN_INDEX] = run.
DataFrame(rows, run) ==
  [i \in 1..Len(rows) |->
     [num_sets |-> rows[i][1],
      estimated_cardinality |-> rows[i][2],
      true_cardinality |-> rows[i][3],
      run_index |-> run]]

\* A relative error over the estimate instead of the truth.
RelativeErrorOverEstimate(estimated, truth) ==
  [i \in 1..Len(estimated) |-> TrueDiv(estimated[i] - truth[i], estimated[i])]

\* (estimated - truth) / truth, element by element.
relative_error(estimated, truth) ==
  [i \in 1..Len(estimated) |-> TrueDiv(estimated[i] - truth[i], truth[i])]

WithRelativeError(table) ==
  LET re == relative_error(Column(table, ESTIMATED_CARDINALITY),
                           Column(table, TRUE_CARDINALITY))
  IN  [i \in 1..Len(table) |->
         [num_sets |-> table[i].num_sets,
          estimated_cardinality |-> table[i].estimated_cardinality,
          true_cardinality |-> table[i].true_cardinality,
          run_index |-> table[i].run_index,
          relative_error |-> re[i]]]

GroupKeys(table) == {table[i].num_sets : i \in 1..Len(table)}
Group(table, key) == SelectSeq(table, LAMBDA r : r.num_sets = key)

aggregate(table) ==
  [key \in GroupKeys(table) |->
     LET g == Group(table, key)
     IN  [estimated_cardinality |-> Stats(IntColumn(g, ESTIMATED_CARDINALITY)),
          true_cardinality |-> Stats(IntColumn(g, TRUE_CARDINALITY)),
          relative_error |-> Stats(Column(g, RELATIVE_ERROR))]]

----------------------------------------------------------------------------
\* numpy.random.RandomState: a stream fixed by its key, read at pos.

RandomState(key) == [key |-> key, pos |-> 0]
randint(rs) == (rs.key * (rs.pos + 1) + rs.pos) % SeedRange
Advance(rs) == [rs EXCEPT !.pos = @ + 1]

----------------------------------------------------------------------------
\* The collaborators.

sketch_factory(seed, n) == [seed |-> seed, ids |-> {}, noise |-> 0, idx |-> n]
add_ids(sketch, ids) == [sketch EXCEPT !.ids = @ \cup ids]
Noise(sketch) == [sketch EXCEPT !.noise = @ + 1]

SetOf(v) == {i \in Ids : (v \div (2 ^ (i - 1))) % 2 = 1}

\* What next(set_generator) can do: stop, or yield a set.
GenOutcomes(k) ==
  IF deterministic
    THEN LET v == randint(set_random_state[k])
         IN  IF v = 0 \/ Len(actual_ids[k]) >= MaxSets
               THEN {<<"stop", {}>>}
               ELSE {<<"yield", SetOf(v)>>}
    ELSE {<<"stop", {}>>} \cup
         {<<"yield", S>> : S \in IF Len(actual_ids[k]) < MaxSets
                                   THEN SUBSET Ids ELSE {}}

UnionIds(args) == UNION {args[i].ids : i \in 1..Len(args)}
RECURSIVE NoiseSum(_)
NoiseSum(args) ==
  IF args = <<>> THEN 0 ELSE Head(args).noise + NoiseSum(Tail(args))

\* What estimator(args) can return.
EstOutcomes(args) ==
  IF deterministic
    THEN {(Cardinality(UnionIds(args)) + args[1].seed + NoiseSum(args))
            % (MaxEst + 1)}
    ELSE 0..MaxEst

\* sketches[:i + 1], the argument of the estimator call of iteration i (0-based).
EstimatorArgsWholeList(list, i) == list
EstimatorArgs(list, i) == SubSeq(list, 1, i + 1)

\* true_union.update(actual_ids[i]).
UpdateRebinds(union, ids) == ids
update(union, ids) == union \cup ids

\* Whether a write to a sink succeeds.
WriteOutcomes == IF deterministic THEN {TRUE} ELSE BOOLEAN

Sites == {"set_generator_factory", "generator", "sketch_factory", "add_ids",
          "noiser", "estimator"}

----------------------------------------------------------------------------
\* The state after construction.

Const(v) == [k \in Sims |-> v]
Set(f, k, v) == [f EXCEPT ![k] = v]

InitState ==
  /\ \E n \in 0..MaxRuns : num_runs = Const(n)
  /\ \E b \in BOOLEAN : noiser = Const(b)
  /\ \E b \in BOOLEAN : file_handle_raw = Const(b)
  /\ \E b \in BOOLEAN : file_handle_agg = Const(b)
  /\ pc = Const("idle")
  /\ t = Const(0)
  /\ dfs = Const(<<>>)
  /\ df = Const(<<>>)
  /\ df_agg = Const(<<>>)
  /\ sketch_random_seed = Const(0)
  /\ sketches = Const(<<>>)
  /\ actual_ids = Const(<<>>)
  /\ noised = Const(<<>>)
  /\ true_union = Const({})
  /\ metrics = Const(<<>>)
  /\ est_args = Const(<<>>)
  /\ started = Const(0)
  /\ yielded = Const(<<>>)
  /\ writes = Const(<<>>)
  /\ err = Const(NoError)
  /\ result = Const(NoResult)

\* One Simulator, any collaborators.
Init ==
  /\ deterministic = FALSE
  /\ \E key \in 0..1 : sketch_random_state = Const(RandomState(key))
  /\ set_random_state = Const(RandomState(0))
  /\ InitState

\* Two Simulators built with the same seeds and the same configuration.
InitDet ==
  /\ deterministic = TRUE
  /\ \E key \in 0..(SeedRange - 1) :
       sketch_random_state = Const(RandomState(key))
  /\ \E key \in 0..(SeedRange - 1) :
       set_random_state = Const(RandomState(key))
  /\ InitState

----------------------------------------------------------------------------
\* run_all_and_aggregate and run_one, step by step.

ForgetLocals(k) ==
  /\ sketch_random_seed' = Set(sketch_random_seed, k, 0)
  /\ sketches' = Set(sketches, k, <<>>)
  /\ actual_ids' = Set(actual_ids, k, <<>>)
  /\ noised' = Set(noised, k, <<>>)
  /\ true_union' = Set(true_union, k, {})
  /\ metrics' = Set(metrics, k, <<>>)
  /\ est_args' = Set(est_args, k, <<>>)

\* __call__: dfs = [] and the loop over range(num_runs) begins.
Call(k) ==
  /\ pc[k] = "idle"
  /\ pc' = Set(pc, k, "loop")
  /\ dfs' = Set(dfs, k, <<>>)
  /\ t' = Set(t, k, 0)
  /\ UNCHANGED <<config, sketch_random_state, set_random_state, df, df_agg,
                 locals, started, yielded, writes, err, result>>

\* run_one drawing from one process-wide stream instead of its own.
RunOneBeginShared(k) ==
  /\ pc[k] = "loop"
  /\ t[k] < num_runs[k]
  /\ started' = Set(started, k, started[k] + 1)
  /\ sketch_random_seed' =
       Set(sketch_random_seed, k, randint(sketch_random_state[1]))
  /\ sketch_random_state' =
       Set(sketch_random_state, 1, Advance(sketch_random_state[1]))
  /\ sketches' = Set(sketches, k, <<>>)
  /\ actual_ids' = Set(actual_ids, k, <<>>)
  /\ pc' = Set(pc, k, "gen")
  /\ UNCHANGED <<config, set_random_state, t, dfs, df, df_agg, noised,
                 true_union, metrics, est_args, yielded, writes, err, result>>

\* run_one is entered: the generator factory returns a generator and the
\* trial's seed is drawn.
RunOneBegin(k) ==
  /\ pc[k] = "loop"
  /\ t[k] < num_runs[k]
  /\ started' = Set(started, k, started[k] + 1)
  /\ sketch_random_seed' =
       Set(sketch_random_seed, k, randint(sketch_random_state[k]))
  /\ sketch_random_state' =
       Set(sketch_random_state, k, Advance(sketch_random_state[k]))
  /\ sketches' = Set(sketches, k, <<>>)
  /\ actual_ids' = Set(actual_ids, k, <<>>)
  /\ pc' = Set(pc, k, "gen")
  /\ UNCHANGED <<config, set_random_state, t, dfs, df, df_agg, noised,
                 true_union, metrics, est_args, yielded, writes, err, result>>

\* An iteration that draws a fresh seed for every sketch.
BuildSketchFreshSeed(k) ==
  /\ pc[k] = "gen"
  /\ \E o \in GenOutcomes(k) :
       /\ o[1] = "yield"
       /\ actual_ids' = Set(actual_ids, k, Append(actual_ids[k], o[2]))
       /\ sketches' =
            Set(sketches, k,
                Append(sketches[k],
                       add_ids(sketch_factory(randint(sketch_random_state[k]),
                                              Len(sketches[k]) + 1), o[2])))
  /\ sketch_random_state' =
       Set(sketch_random_state, k, Advance(sketch_random_state[k]))
  /\ set_random_state' = Set(set_random_state, k, Advance(set_random_state[k]))
  /\ UNCHANGED <<config, pc, t, dfs, df, df_agg,
                 sketch_random_seed, noised, true_union, metrics, est_args,
                 started, yielded, writes, err, result>>

\* One iteration of "for campaign_ids in set_generator".
BuildSketch(k) ==
  /\ pc[k] = "gen"
  /\ \E o \in GenOutcomes(k) :
       /\ o[1] = "yield"
       /\ actual_ids' = Set(actual_ids, k, Append(actual_ids[k], o[2]))
       /\ sketches' =
            Set(sketches, k,
                Append(sketches[k],
                       add_ids(sketch_factory(sketch_random_seed[k],
                                              Len(sketches[k]) + 1), o[2])))
  /\ set_random_state' = Set(set_random_state, k, Advance(set_random_state[k]))
  /\ UNCHANGED <<config, sketch_random_state, pc, t, dfs, df, df_agg,
                 sketch_random_seed, noised, true_union, metrics, est_args,
                 started, yielded, writes, err, result>>

\* The generator is exhausted: on to the noiser, or to the estimates.
GenExhausted(k) ==
  /\ pc[k] = "gen"
  /\ \E o \in GenOutcomes(k) : o[1] = "stop"
  /\ set_random_state' = Set(set_random_state, k, Advance(set_random_state[k]))
  /\ noised' = Set(noised, k, <<>>)
  /\ true_union' = Set(true_union, k, {})
  /\ metrics' = Set(metrics, k, <<>>)
  /\ pc' = Set(pc, k, IF noiser[k] THEN "noise" ELSE "est")
  /\ UNCHANGED <<config, sketch_random_state, t, dfs, df, df_agg,
                 sketch_random_seed, sketches, actual_ids, est_args, started,
                 yielded, writes, err, result>>

\* One element of [noiser(s) for s in sketches].
NoiseOne(k) ==
  /\ pc[k] = "noise"
  /\ Len(noised[k]) < Len(sketches[k])
  /\ noised' =
       Set(noised, k, Append(noised[k], Noise(sketches[k][Len(noised[k]) + 1])))
  /\ UNCHANGED <<config, sketch_random_state, set_random_state, pc, t, dfs, df,
                 df_agg, sketch_random_seed, sketches, actual_ids, true_union,
                 metrics, est_args, started, yielded, writes, err, result>>

\* The comprehension is complete: sketches is rebound to the noised list.
NoiseDone(k) ==
  /\ pc[k] = "noise"
  /\ Len(noised[k]) = Len(sketches[k])
  /\ sketches' = Set(sketches, k, noised[k])
  /\ noised' = Set(noised, k, <<>>)
  /\ pc' = Set(pc, k, "est")
  /\ UNCHANGED <<config, sketch_random_state, set_random_state, t, dfs, df,
                 df_agg, sketch_random_seed, actual_ids, true_union, metrics,
                 est_args, started, yielded, writes, err, result>>

\* One iteration of "for i in range(len(sketches))".
Estimate(k) ==
  LET i == Len(metrics[k])
      args == EstimatorArgs(sketches[k], i)
      union == update(true_union[k], actual_ids[k][i + 1])
  IN  /\ pc[k] = "est"
      /\ i < Len(sketches[k])
      /\ \E estimated_cardinality \in EstOutcomes(args) :
           metrics' =
             Set(metrics, k,
                 Append(metrics[k],
                        <<i + 1, estimated_cardinality, Cardinality(union)>>))
      /\ true_union' = Set(true_union, k, union)
      /\ est_args' = Set(est_args, k, Append(est_args[k], args))
      /\ UNCHANGED <<config, sketch_random_state, set_random_state, pc, t, dfs,
                     df, df_agg, sketch_random_seed, sketches, actual_ids,
                     noised, started, yielded, writes, err, result>>

\* run_one returns its table; the caller stamps run_index and appends it.
RunOneReturn(k) ==
  /\ pc[k] = "est"
  /\ Len(metrics[k]) = Len(sketches[k])
  /\ dfs' = Set(dfs, k, Append(dfs[k], DataFrame(metrics[k], t[k])))
  /\ t' = Set(t, k, t[k] + 1)
  /\ yielded' = Set(yielded, k, Append(yielded[k], Len(actual_ids[k])))
  /\ pc' = Set(pc, k, "loop")
  /\ ForgetLocals(k)
  /\ UNCHANGED <<config, sketch_random_state, set_random_state, df, df_agg,
                 started, writes, err, result>>

\* A failing trial that is skipped: the loop goes on with the next trial.
RaiseSwallowed(k, site) ==
  /\ \/ /\ pc[k] = "loop"
        /\ t[k] < num_runs[k]
        /\ site = "set_generator_factory"
     \/ /\ pc[k] = "gen"
        /\ site \in {"generator", "sketch_factory", "add_ids"}
     \/ /\ pc[k] = "noise"
        /\ site = "noiser"
        /\ Len(noised[k]) < Len(sketches[k])
     \/ /\ pc[k] = "est"
        /\ site = "estimator"
        /\ Len(metrics[k]) < Len(sketches[k])
  /\ pc' = Set(pc, k, "loop")
  /\ t' = Set(t, k, t[k] + 1)
  /\ err' = Set(err, k, <<site, t[k]>>)
  /\ started' = Set(started, k, IF pc[k] = "loop" THEN started[k] + 1
                                                  ELSE started[k])
  /\ ForgetLocals(k)
  /\ UNCHANGED <<config, sketch_random_state, set_random_state, dfs, df,
                 df_agg, yielded, writes, result>>

\* A collaborator raises: nothing catches it, the call ends with the error.
\* The generator factory raises as run_one is entered, before the seed is
\* drawn.
Raise(k, site) ==
  /\ \/ /\ pc[k] = "loop"
        /\ t[k] < num_runs[k]
        /\ site = "set_generator_factory"
     \/ /\ pc[k] = "gen"
        /\ site \in {"generator", "sketch_factory", "add_ids"}
     \/ /\ pc[k] = "noise"
        /\ site = "noiser"
        /\ Len(noised[k]) < Len(sketches[k])
     \/ /\ pc[k] = "est"
        /\ site = "estimator"
        /\ Len(metrics[k]) < Len(sketches[k])
  /\ pc' = Set(pc, k, "raised")
  /\ err' = Set(err, k, <<site, t[k]>>)
  /\ started' = Set(started, k, IF pc[k] = "loop" THEN started[k] + 1
                                                  ELSE started[k])
  /\ ForgetLocals(k)
  /\ UNCHANGED <<config, sketch_random_state, set_random_state, t, dfs, df,
                 df_agg, yielded, writes, result>>

\* pd.concat(dfs, ignore_index=True); an empty list is a ValueError.
Concat(k) ==
  /\ pc[k] = "loop"
  /\ t[k] >= num_runs[k]
  /\ IF dfs[k] = <<>>
       THEN /\ pc' = Set(pc, k, "raised")
            /\ err' = Set(err, k, <<"ValueError", t[k]>>)
            /\ UNCHANGED df
       ELSE /\ pc' = Set(pc, k, "relerr")
            /\ df' = Set(df, k, pd_concat(dfs[k]))
            /\ UNCHANGED err
  /\ UNCHANGED <<config, sketch_random_state, set_random_state, t, dfs, df_agg,
                 locals, started, yielded, writes, result>>

\* df[RELATIVE_ERROR] = relative_error(df[...], df[...]).
ComputeRelativeError(k) ==
  /\ pc[k] = "relerr"
  /\ df' = Set(df, k, WithRelativeError(df[k]))
  /\ pc' = Set(pc, k, "agg")
  /\ UNCHANGED <<config, sketch_random_state, set_random_state, t, dfs, df_agg,
                 locals, started, yielded, writes, err, result>>

\* df_agg = self.aggregate(df).
Aggregate(k) ==
  /\ pc[k] = "agg"
  /\ df_agg' = Set(df_agg, k, aggregate(df[k]))
  /\ pc' = Set(pc, k, "write_raw")
  /\ UNCHANGED <<config, sketch_random_state, set_random_state, t, dfs, df,
                 locals, started, yielded, writes, err, result>>

\* A raw write whose failure is swallowed.
WriteRawSwallowed(k) ==
  /\ pc[k] = "write_raw"
  /\ IF file_handle_raw[k]
       THEN \E ok \in WriteOutcomes :
              writes' = Set(writes, k, Append(writes[k], <<"raw", ok>>))
       ELSE UNCHANGED writes
  /\ pc' = Set(pc, k, "write_agg")
  /\ UNCHANGED <<config, sketch_random_state, set_random_state, t, dfs, df,
                 df_agg, locals, started, yielded, err, result>>

\* if self.file_handle_raw is not None: df.to_csv(...).
WriteRaw(k) ==
  /\ pc[k] = "write_raw"
  /\ IF file_handle_raw[k]
       THEN \E ok \in WriteOutcomes :
              /\ writes' = Set(writes, k, Append(writes[k], <<"raw", ok>>))
              /\ pc' = Set(pc, k, IF ok THEN "write_agg" ELSE "raised")
              /\ err' = Set(err, k, IF ok THEN NoError ELSE <<"raw_sink", t[k]>>)
       ELSE /\ pc' = Set(pc, k, "write_agg")
            /\ UNCHANGED <<writes, err>>
  /\ UNCHANGED <<config, sketch_random_state, set_random_state, t, dfs, df,
                 df_agg, locals, started, yielded, result>>

\* if self.file_handle_agg is not None: df_agg.to_csv(...).
WriteAgg(k) ==
  /\ pc[k] = "write_agg"
  /\ IF file_handle_agg[k]
       THEN \E ok \in WriteOutcomes :
              /\ writes' = Set(writes, k, Append(writes[k], <<"agg", ok>>))
              /\ pc' = Set(pc, k, IF ok THEN "return" ELSE "raised")
              /\ err' = Set(err, k, IF ok THEN NoError ELSE <<"agg_sink", t[k]>>)
       ELSE /\ pc' = Set(pc, k, "return")
            /\ UNCHANGED <<writes, err>>
  /\ UNCHANGED <<config, sketch_random_state, set_random_state, t, dfs, df,
                 df_agg, locals, started, yielded, result>>

\* return df, df_agg.
Return(k) ==
  /\ pc[k] = "return"
  /\ result' = Set(result, k, <<df[k], df_agg[k]>>)
  /\ pc' = Set(pc, k, "done")
  /\ UNCHANGED <<config, sketch_random_state, set_random_state, t, dfs, df,
                 df_agg, locals, started, yielded, writes, err>>

Next ==
  \/ \E k \in Active : Call(k)
  \/ \E k \in Active : RunOneBegin(k)
  \/ \E k \in Active : BuildSketch(k)
  \/ \E k \in Active : GenExhausted(k)
  \/ \E k \in Active : NoiseOne(k)
  \/ \E k \in Active : NoiseDone(k)
  \/ \E k \in Active : Estimate(k)
  \/ \E k \in Active : RunOneReturn(k)
  \/ \E k \in Active : Concat(k)
  \/ \E k \in Active : ComputeRelativeError(k)
  \/ \E k \in Active : Aggregate(k)
  \/ \E k \in Active : WriteRaw(k)
  \/ \E k \in Active : WriteAgg(k)
  \/ \E k \in Active : Return(k)
  \/ \E k \in Active : \E site \in Sites : Raise(k, site)

\* Deterministic collaborators that do not raise, sinks that do not fail.
NextDet ==
  \/ \E k \in Active : Call(k)
  \/ \E k \in Active : RunOneBegin(k)
  \/ \E k \in Active : BuildSketch(k)
  \/ \E k \in Active : GenExhausted(k)
  \/ \E k \in Active : NoiseOne(k)
  \/ \E k \in Active : NoiseDone(k)
  \/ \E k \in Active : Estimate(k)
  \/ \E k \in Active : RunOneReturn(k)
  \/ \E k \in Active : Concat(k)
  \/ \E k \in Active : ComputeRelativeError(k)
  \/ \E k \in Active : Aggregate(k)
  \/ \E k \in Active : WriteRaw(k)
  \/ \E k \in Active : WriteAgg(k)
  \/ \E k \in Active : Return(k)

Spec == Init /\ [][Next]_vars
SpecDet == InitDet /\ [][NextDet]_vars

----------------------------------------------------------------------------
\* Properties.  Instance 1 is the Simulator the single-instance properties
\* speak of.

RECURSIVE SumSeq(_)
SumSeq(s) == IF s = <<>> THEN 0 ELSE Head(s) + SumSeq(Tail(s))

\* The raw table exists (pd.concat has returned).
HasRaw(k) ==
  \/ pc[k] \in {"relerr", "agg", "write_raw", "write_agg", "return", "done"}
  \/ pc[k] = "raised" /\ err[k][1] \in {"raw_sink", "agg_sink"}

\* The raw table carries the relative_error column.
HasRelativeError(k) ==
  \/ pc[k] \in {"agg", "write_raw", "write_agg", "return", "done"}
  \/ pc[k] = "raised" /\ err[k][1] \in {"raw_sink", "agg_sink"}

\* The aggregated table exists.
HasAgg(k) ==
  \/ pc[k] \in {"write_raw", "write_agg", "return", "done"}
  \/ pc[k] = "raised" /\ err[k][1] \in {"raw_sink", "agg_sink"}

RunIndexes(table) == {table[i].run_index : i \in 1..Len(table)}

\* C1: in run_one, the row emitted for prefix i has true_cardinality equal to
\* the number of distinct identifiers of the first i sets yielded, whatever
\* the sets share and whatever the estimator returned.
C1_TrueCardinalityIsUnionSize ==
  \A i \in 1..Len(metrics[1]) :
    /\ metrics[1][i][1] = i
    /\ metrics[1][i][3] =
         Cardinality(UNION {actual_ids[1][j] : j \in 1..i})

\* C1 witness: two rows are out, the two sets share an identifier and the
\* union is smaller than the sum of the sizes.
C1_Witness ==
  /\ pc[1] = "est"
  /\ Len(metrics[1]) = 2
  /\ actual_ids[1][1] \cap actual_ids[1][2] # {}
  /\ actual_ids[1][1] # actual_ids[1][2]
  /\ metrics[1][2][3] = 2

\* C2 as claimed: the raw table has exactly num_runs distinct run_index values
\* and as many rows as sets were yielded over the trials.
C2_Original ==
  pc[1] = "done" =>
    /\ Cardinality(RunIndexes(df[1])) = num_runs[1]
    /\ Len(df[1]) = SumSeq(yielded[1])

\* C2 amended: a raw table is produced only for num_runs >= 1; it has as many
\* rows as sets were yielded over the trials, and its run_index values are the
\* indexes of the trials that yielded at least one set.
C2_RunIndexesOfNonEmptyTrials ==
  /\ HasRaw(1) =>
       /\ num_runs[1] >= 1
       /\ Len(yielded[1]) = num_runs[1]
       /\ Len(df[1]) = SumSeq(yielded[1])
       /\ RunIndexes(df[1]) =
            {r \in 0..(num_runs[1] - 1) : yielded[1][r + 1] > 0}
  /\ (pc[1] = "raised" /\ err[1][1] = "ValueError") => num_runs[1] = 0

\* C2 witness: two trials, the first yielded nothing, the second two sets.
C2_Witness ==
  /\ pc[1] = "done"
  /\ num_runs[1] = 2
  /\ yielded[1] = <<0, 2>>
  /\ RunIndexes(df[1]) = {1}

\* C3 as claimed: relative_error is (estimated - true) / true, and it is NaN
\* in every row with true_cardinality = 0.
C3_Original ==
  HasRelativeError(1) =>
    \A i \in 1..Len(df[1]) :
      LET r == df[1][i]
      IN  IF r.true_cardinality = 0
            THEN IsNaN(r.relative_error)
            ELSE /\ IsFin(r.relative_error)
                 /\ r.relative_error[2] * r.true_cardinality =
                      (r.estimated_cardinality - r.true_cardinality)
                        * r.relative_error[3]

\* C3 amended: relative_error is (estimated - true) / true; in a row with
\* true_cardinality = 0 it is NaN when the estimate is 0 and plus infinity
\* when the estimate is positive; the column is computed, nothing is raised.
C3_RelativeErrorZeroTruth ==
  HasRelativeError(1) =>
    \A i \in 1..Len(df[1]) :
      LET r == df[1][i]
      IN  IF r.true_cardinality = 0
            THEN IF r.estimated_cardinality = 0
                   THEN IsNaN(r.relative_error)
                   ELSE r.relative_error = Inf(1)
            ELSE /\ IsFin(r.relative_error)
                 /\ r.relative_error[3] > 0
                 /\ r.relative_error[2] * r.true_cardinality =
                      (r.estimated_cardinality - r.true_cardinality)
                        * r.relative_error[3]

\* C3 witness: the table has a row with true 0 and estimate 0, a row with
\* true 0 and estimate 1, and a row with a non-zero true cardinality whose
\* relative error is not zero.
C3_Witness ==
  /\ HasRelativeError(1)
  /\ \E i, j, l \in 1..Len(df[1]) :
       /\ df[1][i].true_cardinality = 0 /\ df[1][i].estimated_cardinality = 0
       /\ df[1][j].true_cardinality = 0 /\ df[1][j].estimated_cardinality = 1
       /\ df[1][l].true_cardinality = 2 /\ df[1][l].estimated_cardinality = 1

GroupErrors(k, key) == Column(Group(df[k], key), RELATIVE_ERROR)

\* C4 as claimed: a group with a NaN relative_error row has a NaN mean and a
\* NaN std.
C4_Original ==
  HasAgg(1) =>
    \A key \in DOMAIN df_agg[1] :
      (\E i \in 1..Len(GroupErrors(1, key)) : IsNaN(GroupErrors(1, key)[i])) =>
        /\ IsNaN(df_agg[1][key].relative_error.mean)
        /\ IsNaN(df_agg[1][key].relative_error.std)

\* Sum of the finite values of s as an unreduced fraction.
RECURSIVE DenProd(_)
DenProd(s) == IF s = <<>> THEN 1 ELSE Head(s)[3] * DenProd(Tail(s))
RECURSIVE NumSum(_)
NumSum(s) ==
  IF s = <<>> THEN 0
  ELSE Head(s)[2] * DenProd(Tail(s)) + Head(s)[3] * NumSum(Tail(s))

\* C4 amended: the NaN rows of a group are skipped.  The mean is NaN exactly
\* when every row of the group is NaN, and is otherwise the mean of the other
\* rows (infinite when one of them is); the std is NaN exactly when fewer than
\* two rows are not NaN or one of them is infinite.
C4_NaNRowsSkipped ==
  HasAgg(1) =>
    /\ DOMAIN df_agg[1] = GroupKeys(df[1])
    /\ \A key \in DOMAIN df_agg[1] :
         LET rest == SelectSeq(GroupErrors(1, key), NotNaN)
             infinite == \E i \in 1..Len(rest) : IsInf(rest[i])
             m == df_agg[1][key].relative_error.mean
             sd == df_agg[1][key].relative_error.std
         IN  /\ IsNaN(m) <=> rest = <<>>
             /\ IsInf(m) <=> infinite
             /\ IsFin(m) =>
                  m[2] * Len(rest) * DenProd(rest) = m[3] * NumSum(rest)
             /\ IsNaN(sd) <=> (Len(rest) < 2 \/ infinite)
             /\ ~IsInf(sd)

\* C4 witness: a group holds a NaN row and a row with relative error -1, and
\* its mean is -1.
C4_Witness ==
  /\ HasAgg(1)
  /\ \E key \in DOMAIN df_agg[1] :
       /\ \E i \in 1..Len(GroupErrors(1, key)) : IsNaN(GroupErrors(1, key)[i])
       /\ \E i \in 1..Len(GroupErrors(1, key)) :
            GroupErrors(1, key)[i] = FromInt(-1)
       /\ df_agg[1][key].relative_error.mean = FromInt(-1)

\* C5: two Simulators built with the same seeds and the same deterministic
\* configuration end the same way and with identical raw tables.
C5_Determinism ==
  (pc[1] \in {"done", "raised"} /\ pc[2] \in {"done", "raised"}) =>
    /\ pc[1] = pc[2]
    /\ df[1] = df[2]
    /\ result[1] = result[2]

\* C5 witness: both Simulators are done, with rows of two trials in the table
\* and estimates that are not all equal.
C5_Witness ==
  /\ deterministic
  /\ pc[1] = "done" /\ pc[2] = "done"
  /\ RunIndexes(df[1]) = {0, 1}
  /\ \E i, j \in 1..Len(df[1]) :
       df[1][i].estimated_cardinality # df[1][j].estimated_cardinality

C7_CollaboratorErrorAborts ==
  err[1][1] \in Sites =>
    /\ pc[1] = "raised"
    /\ err[1][2] = t[1]
    /\ t[1] < num_runs[1]
    /\ Len(dfs[1]) = t[1]
    /\ started[1] = t[1] + 1
    /\ writes[1] = <<>>
    /\ result[1] = NoResult
    /\ ~ENABLED Next

\* C7 witness: the estimator raised in trial 1, after trial 0 completed with
\* rows, on a Simulator with both sinks configured.
C7_Witness ==
  /\ err[1] = <<"estimator", 1>>
  /\ Len(dfs[1]) = 1
  /\ Len(dfs[1][1]) = 2
  /\ file_handle_raw[1] /\ file_handle_agg[1]

\* C8: a sink is written only after all num_runs trials have finished and
\* both tables are complete; each sink is written at most once, and a failed
\* write is the last thing the call does: it ends with that error.
C8_WritesAfterTablesAndFailuresSurface ==
  /\ writes[1] # <<>> =>
       /\ t[1] = num_runs[1]
       /\ Len(dfs[1]) = num_runs[1]
       /\ HasAgg(1)
       /\ Len(df[1]) = SumSeq(yielded[1])
       /\ \A i \in 1..Len(df[1]) : RELATIVE_ERROR \in DOMAIN df[1][i]
       /\ DOMAIN df_agg[1] = GroupKeys(df[1])
  /\ Len(writes[1]) <= 2
  /\ Len(writes[1]) = 2 => writes[1][1][1] = "raw" /\ writes[1][2][1] = "agg"
  /\ \A i \in 1..Len(writes[1]) :
       ~writes[1][i][2] =>
         /\ i = Len(writes[1])
         /\ pc[1] = "raised"
         /\ err[1][1] = (IF writes[1][i][1] = "raw" THEN "raw_sink"
                                                   ELSE "agg_sink")
         /\ result[1] = NoResult

\* C8 witness: the raw write succeeded and the aggregated write failed, with
\* a table of three rows.
C8_Witness ==
  /\ writes[1] = <<<<"raw", TRUE>>, <<"agg", FALSE>>>>
  /\ Len(df[1]) = 3

\* C9: within run_one every sketch is built and filled before the noiser is
\* called, the noiser is called once on each finished sketch before the
\* estimator is called, and the i-th estimator call receives the first i
\* (noised, when a noiser is configured) sketches in generation order.
C9_PhasesOrdered ==
  /\ pc[1] \in {"gen", "noise"} =>
       /\ est_args[1] = <<>>
       /\ Len(sketches[1]) = Len(actual_ids[1])
       /\ \A j \in 1..Len(sketches[1]) :
            sketches[1][j] =
              [seed |-> sketch_random_seed[1], ids |-> actual_ids[1][j],
               noise |-> 0, idx |-> j]
  /\ pc[1] = "gen" => noised[1] = <<>>
  /\ pc[1] = "noise" =>
       /\ noiser[1]
       /\ Len(noised[1]) <= Len(sketches[1])
       /\ \A j \in 1..Len(noised[1]) :
            noised[1][j] = [sketches[1][j] EXCEPT !.noise = 1]
  /\ pc[1] = "est" =>
       /\ Len(sketches[1]) = Len(actual_ids[1])
       /\ \A j \in 1..Len(sketches[1]) :
            sketches[1][j] =
              [seed |-> sketch_random_seed[1], ids |-> actual_ids[1][j],
               noise |-> (IF noiser[1] THEN 1 ELSE 0), idx |-> j]
       /\ Len(est_args[1]) = Len(metrics[1])
       /\ \A i \in 1..Len(est_args[1]) :
            /\ Len(est_args[1][i]) = i
            /\ \A j \in 1..i : est_args[1][i][j] = sketches[1][j]

\* C9 witness: with a noiser configured, the estimator has been called once
\* on one sketch and is yet to be called on the two.
C9_Witness ==
  /\ pc[1] = "est"
  /\ noiser[1]
  /\ Len(sketches[1]) = 2
  /\ Len(est_args[1]) = 1
  /\ sketches[1][1].ids # sketches[1][2].ids

\* C10: the raw table is the per-trial tables in trial order: the rows of
\* trial r, with num_sets 1..N in order and run_index r, come after the rows
\* of the trials before it, with the values run_one gave them.
C10_ConcatenationInTrialOrder ==
  HasRaw(1) =>
    /\ Len(df[1]) = SumSeq(yielded[1])
    /\ \A i \in 1..Len(df[1]) :
         LET r == df[1][i].run_index
             before == SumSeq(SubSeq(yielded[1], 1, r))
             n == i - before
         IN  /\ r \in 0..(Len(yielded[1]) - 1)
             /\ n \in 1..yielded[1][r + 1]
             /\ df[1][i].num_sets = n
             /\ df[1][i].estimated_cardinality =
                  dfs[1][r + 1][n].estimated_cardinality
             /\ df[1][i].true_cardinality = dfs[1][r + 1][n].true_cardinality

\* C10 witness: two trials of two rows and one row, whose estimates differ.
C10_Witness ==
  /\ pc[1] = "done"
  /\ yielded[1] = <<2, 1>>
  /\ df[1][2].estimated_cardinality # df[1][3].estimated_cardinality
  /\ df[1][3].run_index = 1

====
